---- MODULE Spec2Model ----
(***************************************************************************)
(* Timed examination session (src/components/TestInterface.tsx) and the    *)
(* application shell that starts it and records its result (src/App.tsx).  *)
(*                                                                         *)
(* Every handler is one atomic step: React runs one event handler or one   *)
(* interval callback at a time and commits the resulting render before the *)
(* next one.  What a render captures in a closure is state of the model:   *)
(* the interval callback of the Timer effect keeps the currentIndex and    *)
(* the responses of the render that installed it (variable timer).         *)
(*                                                                         *)
(* Strings are sequences of one-character strings, so that length, trim    *)
(* and truthiness are computed and not assumed.  Indices are 0-based as in *)
(* the source; sequences are 1-based, hence questions[index + 1].          *)
(*                                                                         *)
(* Spec is the session under every order of callbacks and user events.     *)
(* ClockSpec adds the wall clock of setInterval (variable wall): when the  *)
(* callback is due and what re-arms it.  ScoreSpec submits sessions of up  *)
(* to MaxScored questions for the calculations of ResultScreen             *)
(* (src/components/ResultScreen.tsx).  HistorySpec ends such sessions on   *)
(* top of a stored history of earlier ones.  StorageSpec is Spec with      *)
(* finishes whose localStorage.setItem throws.  LiveSpec is ClockSpec with *)
(* a clock that never stops and fairness for time and the interval.        *)
(* TabSpec presses the subject tabs of the larger sessions, MalformedSpec  *)
(* hands a response of an unknown question to the scoring.                 *)
(***************************************************************************)
EXTENDS Integers, Sequences, FiniteSets, TLC

\* ------------------------------------------------------------------ bounds
\* Longest question list the question supply returns in the model.
MaxQuestions == 2
\* The source counts 60 seconds to the minute (TestInterface.tsx:16).  The
\* model keeps the product durationMinutes * SecondsPerMinute but works with
\* a shorter minute, so that the countdown expires within the explored depth.
SecondsPerMinute == 2

\* ------------------------------------------------------------------- types
NOT_VISITED == "not_visited"
NOT_ANSWERED == "not_answered"
ANSWERED == "answered"
MARKED_FOR_REVIEW == "marked"
ANSWERED_AND_MARKED == "answered_marked"

QuestionStatus ==
  {NOT_VISITED, NOT_ANSWERED, ANSWERED, MARKED_FOR_REVIEW, ANSWERED_AND_MARKED}

MCQ == "MCQ"
NUMERICAL == "NUMERICAL"

PHYSICS == "Physics"
CHEMISTRY == "Chemistry"
MATHS == "Mathematics"

Subject == {PHYSICS, CHEMISTRY, MATHS}

\* JavaScript null, as a value no string equals (a string is a sequence of
\* one-character strings).
Null == <<"null">>

\* JavaScript truthiness of a string | null: null and "" are falsy.
Truthy(s) == s # Null /\ Len(s) > 0

\* ---------------------------------------------------------- question supply
\* The records generateQuestions returns: ids are distinct, each subject's
\* batch is contiguous.
Bank ==
  << [id |-> "q-0", type |-> MCQ, subject |-> PHYSICS,
      correctAnswer |-> <<"0">>, options |-> 2],
     [id |-> "q-1", type |-> NUMERICAL, subject |-> CHEMISTRY,
      correctAnswer |-> <<"5">>, options |-> 0],
     [id |-> "q-2", type |-> MCQ, subject |-> CHEMISTRY,
      correctAnswer |-> <<"1">>, options |-> 2],
     [id |-> "q-3", type |-> NUMERICAL, subject |-> MATHS,
      correctAnswer |-> <<"5">>, options |-> 0] >>

\* What the supply may resolve to: zero or more questions.
GeneratedQuestions == {SubSeq(Bank, 1, n) : n \in 0..MaxQuestions}

\* config.durationMinutes of a started test.  The length of the countdown
\* varies with SecondsPerMinute.
Durations == {1}

\* idx.toString() for the option buttons of question q (options?.map).
DigitChars == <<"0", "1", "2", "3">>

OptionStrings(q) == {<<DigitChars[idx + 1]>> : idx \in 0..(q.options - 1)}

\* e.target.value of the numerical input: empty, the answer, the answer
\* followed by a blank, a different number.
NumericalTexts == {<<>>, <<"5">>, <<"5", " ">>, <<"5", "0">>}

VARIABLES
  view,           \* App: the screen shown
  questions,      \* App: the question list of the running / last test
  durationMinutes,\* App: config.durationMinutes
  finalConfig,    \* startTest: finalConfig.durationMinutes while it awaits
  appResponses,   \* App: responses, the array handed to onFinish
  testHistory,    \* App: testHistory
  storage,        \* localStorage['jee_genius_history']
  error,          \* App: error
  currentIndex,   \* TestInterface: currentIndex
  timeLeft,       \* TestInterface: timeLeft
  activeTab,      \* TestInterface: activeTab
  responses,      \* TestInterface: responses, keyed by question id
  timer,          \* TestInterface: what the interval callback closed over
  ticks,          \* TestInterface: callbacks the interval has run since mount
  wall,           \* the wall clock since mount and the instant the interval fires
  lastEvent       \* the handler that ran last, with its argument

vars ==
  <<view, questions, durationMinutes, finalConfig, appResponses, testHistory,
    storage, error, currentIndex, timeLeft, activeTab, responses, timer,
    ticks, wall, lastEvent>>

appVars ==
  <<view, questions, durationMinutes, finalConfig, appResponses, testHistory,
    storage, error>>

testVars == <<currentIndex, timeLeft, activeTab, responses, timer, ticks>>

\* -------------------------------------------------------- TestInterface

\* The question at a 0-based index; questions[index] is undefined outside.
InRange(index) == 0 <= index /\ index < Len(questions)

QuestionAt(index) == questions[index + 1]

\* Mutation: the initialiser forgets to mark the first question as visited.
InitialResponsesNoneVisited(qs) ==
  [id \in {qs[i].id : i \in 1..Len(qs)} |->
     [questionId |-> id, selectedOption |-> Null,
      status |-> NOT_VISITED, timeSpentSeconds |-> 0]]

\* useState initialiser of responses: one entry per question id, the first
\* question marked as visited.
InitialResponses(qs) ==
  LET initial == [id \in {qs[i].id : i \in 1..Len(qs)} |->
                    [questionId |-> id, selectedOption |-> Null,
                     status |-> NOT_VISITED, timeSpentSeconds |-> 0]]
  IN IF Len(qs) > 0
       THEN [initial EXCEPT ![qs[1].id].status = NOT_ANSWERED]
       ELSE initial

\* useState initialiser of timeLeft.
InitialTimeLeft(minutes) == minutes * SecondsPerMinute

\* Object.values(responses): the entries in insertion order, which is the
\* order of the questions (ids are not integer-like keys).
ObjectValues(table, qs) == [i \in 1..Len(qs) |-> table[qs[i].id]]

\* Mutation: navigation never marks the target as visited.
VisitStatusNever(status) == status

\* navigateTo's updater of responses.
VisitStatus(status) == IF status = NOT_VISITED THEN NOT_ANSWERED ELSE status

Visit(table, qId) ==
  IF qId \notin DOMAIN table THEN table
  ELSE [table EXCEPT ![qId].status = VisitStatus(table[qId].status)]

\* handleOptionSelect's updater of responses.
OptionSelectStatus(status) ==
  IF status = MARKED_FOR_REVIEW THEN ANSWERED_AND_MARKED ELSE ANSWERED

OptionSelect(table, qId, option) ==
  IF qId \notin DOMAIN table THEN table
  ELSE [table EXCEPT ![qId].selectedOption = option,
                     ![qId].status = OptionSelectStatus(table[qId].status)]

\* handleNumericalInput's updater of responses.
NumericalInputStatus(status, val) ==
  IF Len(val) > 0
    THEN (IF status = MARKED_FOR_REVIEW THEN ANSWERED_AND_MARKED ELSE ANSWERED)
    ELSE NOT_ANSWERED

NumericalInput(table, qId, val) ==
  IF qId \notin DOMAIN table THEN table
  ELSE [table EXCEPT ![qId].selectedOption = val,
                     ![qId].status = NumericalInputStatus(table[qId].status, val)]

\* Mutation: the Review button of an unmarked question gives it the answered
\* and marked status whether it has a selection or not.
MarkStatusAssumesAnswer(currentRes) ==
  IF currentRes.status = MARKED_FOR_REVIEW THEN NOT_ANSWERED
  ELSE IF currentRes.status = ANSWERED_AND_MARKED THEN ANSWERED
  ELSE ANSWERED_AND_MARKED

\* Mutation: the Review button only ever sets the mark, it never removes it.
MarkStatusNeverUnmarks(currentRes) ==
  IF Truthy(currentRes.selectedOption) THEN ANSWERED_AND_MARKED
  ELSE MARKED_FOR_REVIEW

\* handleMarkForReview: the new status, from the rendered response.
MarkStatus(currentRes) ==
  IF currentRes.status = MARKED_FOR_REVIEW THEN NOT_ANSWERED
  ELSE IF currentRes.status = ANSWERED_AND_MARKED THEN ANSWERED
  ELSE IF Truthy(currentRes.selectedOption) THEN ANSWERED_AND_MARKED
  ELSE MARKED_FOR_REVIEW

\* Mutation: the Review button also takes the selection away.
MarkForReviewDropsSelection(table, qId) ==
  IF qId \notin DOMAIN table THEN table
  ELSE [table EXCEPT ![qId].status = MarkStatus(table[qId]),
                     ![qId].selectedOption = Null]

MarkForReview(table, qId) ==
  IF qId \notin DOMAIN table THEN table
  ELSE [table EXCEPT ![qId].status = MarkStatus(table[qId])]

\* Mutation: Clear puts an unmarked question back to not visited.
ClearStatusNotVisited(status) ==
  IF status = ANSWERED_AND_MARKED THEN MARKED_FOR_REVIEW ELSE NOT_VISITED

\* Mutation: Clear starts the question over, the time spent on it included.
ClearResponseAndTime(table, qId) ==
  IF qId \notin DOMAIN table THEN table
  ELSE [table EXCEPT ![qId].selectedOption = Null,
                     ![qId].status = NOT_ANSWERED,
                     ![qId].timeSpentSeconds = 0]

\* Mutation: Clear drops the mark together with the answer.
ClearStatusDropsMark(status) == NOT_ANSWERED

\* handleClearResponse's updater of responses.
ClearStatus(status) ==
  IF status = ANSWERED_AND_MARKED THEN MARKED_FOR_REVIEW ELSE NOT_ANSWERED

ClearResponse(table, qId) ==
  IF qId \notin DOMAIN table THEN table
  ELSE [table EXCEPT ![qId].selectedOption = Null,
                     ![qId].status = ClearStatus(table[qId].status)]

\* Mutation: the second is credited to the last question of the list.
CreditSecondLast(table, index) ==
  [table EXCEPT ![QuestionAt(Len(questions) - 1).id].timeSpentSeconds = @ + 1]

\* The interval callback's updater of responses: one second for the question
\* at the index the callback closed over.
CreditSecond(table, index) ==
  IF ~InRange(index) \/ QuestionAt(index).id \notin DOMAIN table THEN table
  ELSE [table EXCEPT ![QuestionAt(index).id].timeSpentSeconds = @ + 1]

\* ------------------------------------------------------------------- App

\* The cap of saveHistory.
HistoryCap == 50

\* String.prototype.trim on a string of the model: blanks off both ends.
RECURSIVE TrimStart(_)
TrimStart(s) ==
  IF Len(s) > 0 /\ Head(s) = " " THEN TrimStart(Tail(s)) ELSE s

RECURSIVE TrimEnd(_)
TrimEnd(s) ==
  IF Len(s) > 0 /\ s[Len(s)] = " " THEN TrimEnd(SubSeq(s, 1, Len(s) - 1)) ELSE s

\* Mutation: trim leaves the string as it is.
TrimNothing(s) == s

Trim(s) == TrimEnd(TrimStart(s))

\* Math.round((num / den) * 100): the nearest integer, a half rounded up.
\* The double (23 / 40) * 100 is 57.49999999999999 and rounds down; for every
\* other quotient with den below 200 and num / den from -1/4 to 1 the double
\* rounds as the exact quotient does.
RoundPercent(num, den) ==
  IF 40 * num = 23 * den THEN 57 ELSE (200 * num + den) \div (2 * den)

\* userResponses.find(res => res.questionId === q.id): its position, 0 if none.
FindResponse(userResponses, qId) ==
  LET hits == {i \in 1..Len(userResponses) : userResponses[i].questionId = qId}
  IN IF hits = {} THEN 0 ELSE CHOOSE i \in hits : \A j \in hits : i <= j

\* handleTestFinish: isCorrect for an attempted question.
IsCorrect(q, selectedOption) ==
  IF q.type = MCQ THEN selectedOption = q.correctAnswer
  ELSE Trim(selectedOption) = Trim(q.correctAnswer)

\* handleTestFinish: what question q adds to correct (1 / 0 / 0) and to score.
Attempted(userResponses, q) ==
  LET at == FindResponse(userResponses, q.id)
  IN at # 0 /\ userResponses[at].selectedOption # Null

CorrectOf(userResponses, q) ==
  IF Attempted(userResponses, q)
     /\ IsCorrect(q, userResponses[FindResponse(userResponses, q.id)].selectedOption)
    THEN 1 ELSE 0

\* Mutation: the history summary takes no mark off for a wrong answer.
ScoreOfNoPenalty(userResponses, q) ==
  IF CorrectOf(userResponses, q) = 1 THEN 4 ELSE 0

ScoreOf(userResponses, q) ==
  IF ~Attempted(userResponses, q) THEN 0
  ELSE IF CorrectOf(userResponses, q) = 1 THEN 4 ELSE -1

\* handleTestFinish: questions.forEach accumulating correct and score.
RECURSIVE CorrectCount(_, _)
CorrectCount(userResponses, qs) ==
  IF Len(qs) = 0 THEN 0
  ELSE CorrectOf(userResponses, Head(qs)) + CorrectCount(userResponses, Tail(qs))

RECURSIVE ScoreSum(_, _)
ScoreSum(userResponses, qs) ==
  IF Len(qs) = 0 THEN 0
  ELSE ScoreOf(userResponses, Head(qs)) + ScoreSum(userResponses, Tail(qs))

\* handleTestFinish: Date.now() at the finish, later than the finish of
\* every session of the history; counted in finished sessions.
FinishTime(history) == IF history = <<>> THEN 1 ELSE history[1].id + 1

\* handleTestFinish: the history summary of a finished test.
HistoryItem(qs, userResponses, minutes, now) ==
  LET correct == CorrectCount(userResponses, qs)
      answered == Cardinality({i \in 1..Len(userResponses) :
                                 userResponses[i].selectedOption # Null})
  IN [score |-> ScoreSum(userResponses, qs),
      maxScore |-> Len(qs) * 4,
      accuracy |-> IF answered > 0 THEN RoundPercent(correct, answered) ELSE 0,
      durationMinutes |-> minutes,
      id |-> now]

\* Mutation: the cap keeps the oldest entries of the list.
CappedHistoryOldest(newHistory) ==
  SubSeq(newHistory, IF Len(newHistory) < HistoryCap THEN 1
                     ELSE Len(newHistory) - HistoryCap + 1, Len(newHistory))

\* saveHistory: newHistory.slice(0, 50).
CappedHistory(newHistory) ==
  SubSeq(newHistory, 1, IF Len(newHistory) < HistoryCap THEN Len(newHistory)
                                                         ELSE HistoryCap)

\* ---------------------------------------------------------- ResultScreen

\* Mutation: a question without a selection is counted as a wrong answer.
AnalyzedStatusNoSkip(rs, q) ==
  LET at == FindResponse(rs, q.id)
  IN IF at # 0 /\ rs[at].selectedOption # Null
          /\ (IF q.type = MCQ
                THEN rs[at].selectedOption = q.correctAnswer
                ELSE Trim(rs[at].selectedOption) = Trim(q.correctAnswer))
       THEN "correct" ELSE "wrong"

\* ResultScreen: the status of question q in analyzedQuestions.
AnalyzedStatus(rs, q) ==
  LET at == FindResponse(rs, q.id)
  IN IF at # 0 /\ rs[at].selectedOption # Null
       THEN IF (IF q.type = MCQ
                  THEN rs[at].selectedOption = q.correctAnswer
                  ELSE Trim(rs[at].selectedOption) = Trim(q.correctAnswer))
              THEN "correct" ELSE "wrong"
       ELSE "skipped"

\* ResultScreen: res?.timeSpentSeconds || 0.
AnalyzedTime(rs, q) ==
  LET at == FindResponse(rs, q.id)
  IN IF at = 0 THEN 0 ELSE rs[at].timeSpentSeconds

\* Mutation: a wrong answer costs nothing.
MarksNoPenalty(status) == IF status = "correct" THEN 4 ELSE 0

\* ResultScreen: score += 4 for a correct answer, score -= 1 for a wrong one,
\* nothing for a question without an answer.
Marks(status) ==
  IF status = "correct" THEN 4 ELSE IF status = "wrong" THEN -1 ELSE 0

\* ResultScreen: the counters after questions.map has run over qs.
RECURSIVE Tally(_, _)
Tally(rs, qs) ==
  IF Len(qs) = 0
    THEN [correct |-> 0, incorrect |-> 0, score |-> 0, unattempted |-> 0,
          totalTime |-> 0]
    ELSE LET t == Tally(rs, SubSeq(qs, 1, Len(qs) - 1))
             q == qs[Len(qs)]
             status == AnalyzedStatus(rs, q)
         IN [correct |-> t.correct + (IF status = "correct" THEN 1 ELSE 0),
             incorrect |-> t.incorrect + (IF status = "wrong" THEN 1 ELSE 0),
             score |-> t.score + Marks(status),
             unattempted |->
               t.unattempted + (IF status = "skipped" THEN 1 ELSE 0),
             totalTime |-> t.totalTime + AnalyzedTime(rs, q)]

\* Mutation: the quotient is cut to an integer instead of rounded.
FloorPercent(num, den) == (100 * num) \div den

\* ResultScreen: Math.round((correct / attempted) * 100).
ResultAccuracy(num, den) == RoundPercent(num, den)

\* ResultScreen: Math.round((score / maxScore) * 100); the score may be
\* negative.
ResultPercentage(score, maxScore) == RoundPercent(score, maxScore)

\* Mutation: the negative score is looked at before the guesswork rule.
VerdictCriticalFirst(score, maxScore, accuracy, percentage, attempted, totalQuestions) ==
  IF score = maxScore THEN "Godlike!"
  ELSE IF accuracy > 85 /\ percentage > 70 THEN "Excellent Performance"
  ELSE IF accuracy > 85 /\ percentage < 50 THEN "Cautious Sniper"
  ELSE IF score < 0 THEN "Critical Condition"
  ELSE IF accuracy < 60 /\ 5 * attempted > 4 * totalQuestions
    THEN "Guesswork Hazard"
  ELSE "Balanced Effort"

\* ResultScreen.getVerdict: the title of the verdict.  attempted >
\* totalQuestions * 0.8 is compared in fifths, as the double product does
\* for every list of fewer than 200 questions.
getVerdict(score, maxScore, accuracy, percentage, attempted, totalQuestions) ==
  IF score = maxScore THEN "Godlike!"
  ELSE IF accuracy > 85 /\ percentage > 70 THEN "Excellent Performance"
  ELSE IF accuracy > 85 /\ percentage < 50 THEN "Cautious Sniper"
  ELSE IF accuracy < 60 /\ 5 * attempted > 4 * totalQuestions
    THEN "Guesswork Hazard"
  ELSE IF score < 0 THEN "Critical Condition"
  ELSE "Balanced Effort"

\* ResultScreen: the core calculations shown on the result screen.
ResultReport(qs, rs) ==
  LET t == Tally(rs, qs)
      attempted == t.correct + t.incorrect
  IN [correct |-> t.correct,
      incorrect |-> t.incorrect,
      unattempted |-> t.unattempted,
      score |-> t.score,
      totalTime |-> t.totalTime,
      totalQuestions |-> Len(qs),
      attempted |-> attempted,
      maxScore |-> Len(qs) * 4,
      accuracy |-> IF attempted > 0 THEN ResultAccuracy(t.correct, attempted)
                   ELSE 0,
      percentage |-> IF Len(qs) > 0
                       THEN ResultPercentage(t.score, Len(qs) * 4)
                       ELSE "NaN"]

\* ResultScreen: verdict.title for the report.
ReportVerdict(r) ==
  getVerdict(r.score, r.maxScore, r.accuracy, r.percentage, r.attempted,
             r.totalQuestions)

\* ResultScreen: subjects, the order of the charts.
ChartSubjects == <<PHYSICS, CHEMISTRY, MATHS>>

\* ResultScreen: subQs.filter(q => q.status ...).length for the questions of
\* subject sub, the statuses given as a set.
SubjectCount(qs, rs, sub, statuses) ==
  Len(SelectSeq(qs, LAMBDA q : /\ q.subject = sub
                                /\ AnalyzedStatus(rs, q) \in statuses))

\* Mutation: the accuracy of a subject is taken over all its questions.
RadarAccuracyOfAll(qs, rs, sub) ==
  LET subTotal == SubjectCount(qs, rs, sub, {"correct", "wrong", "skipped"})
      subCorrect == SubjectCount(qs, rs, sub, {"correct"})
  IN IF subTotal > 0 THEN RoundPercent(subCorrect, subTotal) ELSE 0

\* ResultScreen: radarData, the accuracy of subject sub.
RadarAccuracy(qs, rs, sub) ==
  LET subAttempted == SubjectCount(qs, rs, sub, {"correct", "wrong"})
      subCorrect == SubjectCount(qs, rs, sub, {"correct"})
  IN IF subAttempted > 0 THEN RoundPercent(subCorrect, subAttempted) ELSE 0

\* ResultScreen: barData, the counts of subject sub.
BarData(qs, rs, sub) ==
  [Correct |-> SubjectCount(qs, rs, sub, {"correct"}),
   Wrong |-> SubjectCount(qs, rs, sub, {"wrong"}),
   Skipped |-> SubjectCount(qs, rs, sub, {"skipped"})]

\* ------------------------------------------------------------ transitions

NoError == "null"
NoQuestionsError == "No questions were generated. Please try again."
GenerationError ==
  "Failed to generate test. Please check your connection and try again."

Event(op) == [op |-> op, nav |-> FALSE, index |-> 0, text |-> <<>>]

NavEvent(op, index) == [op |-> op, nav |-> TRUE, index |-> index, text |-> <<>>]

TextEvent(op, text) == [op |-> op, nav |-> FALSE, index |-> 0, text |-> text]

\* A handler that was given a list, recorded with the length of the list.
ListEvent(op, list) ==
  [op |-> op, nav |-> FALSE, index |-> Len(list), text |-> <<>>]

\* No TestInterface is mounted: its state does not exist.
NoResponses == [id \in {} |-> Null]

Unmounted ==
  /\ currentIndex' = 0
  /\ timeLeft' = 0
  /\ activeTab' = PHYSICS
  /\ responses' = NoResponses
  /\ timer' = [currentIndex |-> 0, responses |-> NoResponses]
  /\ ticks' = 0

Init ==
  /\ view = "home"
  /\ questions = <<>>
  /\ durationMinutes = 1
  /\ finalConfig = 1
  /\ appResponses = <<>>
  /\ testHistory = <<>>
  /\ storage = <<>>
  /\ error = NoError
  /\ currentIndex = 0
  /\ timeLeft = 0
  /\ activeTab = PHYSICS
  /\ responses = NoResponses
  /\ timer = [currentIndex |-> 0, responses |-> NoResponses]
  /\ ticks = 0
  /\ wall = [now |-> 0, due |-> 0]
  /\ lastEvent = Event("mount App")

\* The stored history of earlier sessions: n entries, the newest first.
PastHistory(n) ==
  [i \in 1..n |-> [score |-> 0, maxScore |-> 60, accuracy |-> 0,
                   durationMinutes |-> 30, id |-> n - i + 1]]

\* The lengths of the stored history the application is started with.
StoredLengths == {0, 1, HistoryCap - 1, HistoryCap}

\* App.handleCustomStart: the home screen opens the configuration screen.
handleCustomStart ==
  /\ view = "home"
  /\ view' = "config"
  /\ lastEvent' = Event("handleCustomStart")
  /\ UNCHANGED <<questions, durationMinutes, finalConfig, appResponses,
                 testHistory, storage, error>>
  /\ UNCHANGED testVars

\* App.startTest up to its await: handleQuickStart on the home screen, the
\* Start button on the configuration screen.
startTest(minutes) ==
  /\ view \in {"home", "config"}
  /\ view' = "loading"
  /\ error' = NoError
  /\ finalConfig' = minutes
  /\ lastEvent' = Event("startTest")
  /\ UNCHANGED <<questions, durationMinutes, appResponses, testHistory, storage>>
  /\ UNCHANGED testVars

\* TestInterface is mounted with the props of App's render: the useState
\* initialisers, then the Timer effect of the first render.
Mount(qs, minutes) ==
  /\ currentIndex' = 0
  /\ timeLeft' = InitialTimeLeft(minutes)
  /\ activeTab' = qs[1].subject
  /\ responses' = InitialResponses(qs)
  /\ timer' = [currentIndex |-> 0, responses |-> InitialResponses(qs)]
  /\ ticks' = 0

\* Mutation: the catch block returns to the configuration screen without
\* setting the error.
CaughtSilently(message) ==
  /\ error' = NoError
  /\ view' = "config"

\* The catch block of startTest: the message of the error is shown on the
\* configuration screen.
Caught(message) ==
  /\ error' = message
  /\ view' = "config"

\* App.startTest after generateQuestions resolved with generatedQuestions.
startTestResolved(generatedQuestions) ==
  /\ view = "loading"
  /\ IF Len(generatedQuestions) = 0
       THEN /\ Caught(NoQuestionsError)
            /\ UNCHANGED <<questions, durationMinutes>>
            /\ UNCHANGED testVars
       ELSE /\ questions' = generatedQuestions
            /\ durationMinutes' = finalConfig
            /\ view' = "test"
            /\ error' = error
            /\ Mount(generatedQuestions, finalConfig)
  /\ lastEvent' = ListEvent("startTestResolved", generatedQuestions)
  /\ UNCHANGED <<finalConfig, appResponses, testHistory, storage>>

\* App.startTest after generateQuestions rejected.
startTestRejected ==
  /\ view = "loading"
  /\ Caught(GenerationError)
  /\ lastEvent' = Event("startTestRejected")
  /\ UNCHANGED <<questions, durationMinutes, finalConfig, appResponses,
                 testHistory, storage>>
  /\ UNCHANGED testVars

\* Mutation: the finish is recorded but the test view stays, TestInterface
\* and its interval with it.
handleTestFinishStaysMounted(userResponses) ==
  /\ appResponses' = userResponses
  /\ testHistory' = CappedHistory(
       <<HistoryItem(questions, userResponses, durationMinutes,
                     FinishTime(testHistory))>> \o testHistory)
  /\ storage' = testHistory'
  /\ UNCHANGED testVars
  /\ UNCHANGED <<view, questions, durationMinutes, finalConfig, error>>

\* App.handleTestFinish(userResponses), then the render of the result view,
\* which unmounts TestInterface (the effect cleanup clears the interval).
handleTestFinish(userResponses) ==
  /\ appResponses' = userResponses
  /\ testHistory' = CappedHistory(
       <<HistoryItem(questions, userResponses, durationMinutes,
                     FinishTime(testHistory))>> \o testHistory)
  /\ storage' = testHistory'
  /\ view' = "result"
  /\ Unmounted
  /\ UNCHANGED <<questions, durationMinutes, finalConfig, error>>

\* The array the interval callback hands to onFinish: handleFinishTest of the
\* render that installed the interval, over the responses of that render.
ExpiredResponses == ObjectValues(timer.responses, questions)

\* Mutation: the Submit Test button uses the handleFinishTest the interval
\* callback closed over.
SubmittedResponsesStale == ObjectValues(timer.responses, questions)

\* The array the Submit Test button hands to onFinish: handleFinishTest of
\* the current render.
SubmittedResponses == ObjectValues(responses, questions)

\* Mutation: the countdown ends one callback late, when it is found at 0.
ExpiredLate(prev) == prev <= 0

\* The setTimeLeft updater: the test of the callback that ends the countdown.
Expired(prev) == prev <= 1

\* Mutation: a callback takes two seconds off the countdown.
DecrementedByTwo(prev) == prev - 2

\* The setTimeLeft updater: what it returns while the countdown runs.
Decremented(prev) == prev - 1

\* The interval callback, every 1000 ms while TestInterface is mounted.
tick ==
  /\ view = "test"
  /\ lastEvent' = Event("tick")
  /\ IF Expired(timeLeft)
       THEN handleTestFinish(ExpiredResponses)
       ELSE /\ timeLeft' = Decremented(timeLeft)
            /\ responses' = CreditSecond(responses, timer.currentIndex)
            /\ ticks' = ticks + 1
            /\ UNCHANGED <<currentIndex, activeTab, timer>>
            /\ UNCHANGED appVars

\* handleFinishTest from the Submit Test button.
handleFinishTest ==
  /\ view = "test"
  /\ lastEvent' = Event("handleFinishTest")
  /\ handleTestFinish(SubmittedResponses)

\* The Timer effect runs again when currentIndex changed (deps [currentIndex,
\* questions]): the new interval closes over the render that follows.
TimerAfter(index, table) ==
  IF index # currentIndex
    THEN [currentIndex |-> index, responses |-> table]
    ELSE timer

Min(a, b) == IF a < b THEN a ELSE b

Max(a, b) == IF a > b THEN a ELSE b

\* Mutation: an index outside the list is clamped to the nearest question
\* instead of being ignored.
navigateToClamped(index) ==
  LET target == Max(0, Min(Len(questions) - 1, index))
  IN /\ responses' = Visit(responses, QuestionAt(target).id)
     /\ currentIndex' = target
     /\ activeTab' = QuestionAt(target).subject
     /\ timer' = TimerAfter(target, responses')
     /\ UNCHANGED <<timeLeft, ticks>>

\* Mutation: navigateTo sets the position without looking whether there is
\* a question at the index.
navigateToUnchecked(index) ==
  /\ currentIndex' = index
  /\ IF InRange(index)
       THEN /\ responses' = Visit(responses, QuestionAt(index).id)
            /\ activeTab' = QuestionAt(index).subject
       ELSE UNCHANGED <<responses, activeTab>>
  /\ timer' = TimerAfter(index, responses')
  /\ UNCHANGED <<timeLeft, ticks>>

\* navigateTo(index), as every caller reaches it.
navigateTo(index) ==
  IF ~InRange(index)
    THEN UNCHANGED testVars
    ELSE /\ responses' = Visit(responses, QuestionAt(index).id)
         /\ currentIndex' = index
         /\ activeTab' = QuestionAt(index).subject
         /\ timer' = TimerAfter(index, responses')
         /\ UNCHANGED <<timeLeft, ticks>>

\* A palette button, or any other call of navigateTo with this index.
navigate(index) ==
  /\ view = "test"
  /\ lastEvent' = NavEvent("navigateTo", index)
  /\ navigateTo(index)
  /\ UNCHANGED appVars

\* Mutation: past the last question the step goes round to the first, and
\* before the first to the last.
KeyTargetWraps(key) ==
  IF key = "ArrowRight" THEN (currentIndex + 1) % Len(questions)
  ELSE (currentIndex + Len(questions) - 1) % Len(questions)

\* handleKeyDown, and the Prev and Next buttons, which compute the same index.
KeyTarget(key) ==
  IF key = "ArrowRight" THEN Min(Len(questions) - 1, currentIndex + 1)
  ELSE Max(0, currentIndex - 1)

handleKeyDown(key) ==
  /\ view = "test"
  /\ lastEvent' = NavEvent(key, KeyTarget(key))
  /\ navigateTo(KeyTarget(key))
  /\ UNCHANGED appVars

\* handleOptionSelect(option): an option button of the shown MCQ question.
handleOptionSelect(option) ==
  /\ view = "test"
  /\ QuestionAt(currentIndex).type = MCQ
  /\ option \in OptionStrings(QuestionAt(currentIndex))
  /\ lastEvent' = TextEvent("handleOptionSelect", option)
  /\ responses' = OptionSelect(responses, QuestionAt(currentIndex).id, option)
  /\ UNCHANGED <<currentIndex, timeLeft, activeTab, timer, ticks>>
  /\ UNCHANGED appVars

\* handleNumericalInput(val): the text input of the shown numerical question.
handleNumericalInput(val) ==
  /\ view = "test"
  /\ QuestionAt(currentIndex).type # MCQ
  /\ lastEvent' = TextEvent("handleNumericalInput", val)
  /\ responses' = NumericalInput(responses, QuestionAt(currentIndex).id, val)
  /\ UNCHANGED <<currentIndex, timeLeft, activeTab, timer, ticks>>
  /\ UNCHANGED appVars

\* handleMarkForReview: the Review button.
handleMarkForReview ==
  /\ view = "test"
  /\ lastEvent' = Event("handleMarkForReview")
  /\ responses' = MarkForReview(responses, QuestionAt(currentIndex).id)
  /\ UNCHANGED <<currentIndex, timeLeft, activeTab, timer, ticks>>
  /\ UNCHANGED appVars

\* handleClearResponse: the Clear button.
handleClearResponse ==
  /\ view = "test"
  /\ lastEvent' = Event("handleClearResponse")
  /\ responses' = ClearResponse(responses, QuestionAt(currentIndex).id)
  /\ UNCHANGED <<currentIndex, timeLeft, activeTab, timer, ticks>>
  /\ UNCHANGED appVars

\* Mutation: the tab opens the last question of the subject.
FindLastIndex(subject) ==
  LET hits == {i \in 0..(Len(questions) - 1) : QuestionAt(i).subject = subject}
  IN IF hits = {} THEN -1 ELSE CHOOSE i \in hits : \A j \in hits : i >= j

\* questions.findIndex(q => q.subject === subject), -1 if there is none.
FindIndex(subject) ==
  LET hits == {i \in 0..(Len(questions) - 1) : QuestionAt(i).subject = subject}
  IN IF hits = {} THEN -1 ELSE CHOOSE i \in hits : \A j \in hits : i <= j

\* handleTabChange(subject): a subject tab.  Without a question of the subject
\* the tab is set and the sync effect sets it back to the shown question's.
handleTabChange(subject) ==
  /\ view = "test"
  /\ IF FindIndex(subject) # -1
       THEN /\ lastEvent' = [NavEvent("handleTabChange", FindIndex(subject))
                              EXCEPT !.text = <<subject>>]
            /\ navigateTo(FindIndex(subject))
       ELSE /\ lastEvent' = TextEvent("handleTabChange", <<subject>>)
            /\ UNCHANGED testVars
  /\ UNCHANGED appVars

\* The specification of the handlers alone: ticks and user events in any
\* order, the wall clock left out.
Next ==
  \/ handleCustomStart /\ UNCHANGED wall
  \/ \E minutes \in Durations : startTest(minutes) /\ UNCHANGED wall
  \/ \E generatedQuestions \in GeneratedQuestions :
       startTestResolved(generatedQuestions) /\ UNCHANGED wall
  \/ startTestRejected /\ UNCHANGED wall
  \/ tick /\ UNCHANGED wall
  \/ handleFinishTest /\ UNCHANGED wall
  \/ \E index \in -1..Len(questions) : navigate(index) /\ UNCHANGED wall
  \/ \E key \in {"ArrowRight", "ArrowLeft"} :
       handleKeyDown(key) /\ UNCHANGED wall
  \/ \E option \in {<<DigitChars[d]>> : d \in 1..Len(DigitChars)} :
       handleOptionSelect(option) /\ UNCHANGED wall
  \/ \E val \in NumericalTexts : handleNumericalInput(val) /\ UNCHANGED wall
  \/ handleMarkForReview /\ UNCHANGED wall
  \/ handleClearResponse /\ UNCHANGED wall
  \/ \E subject \in Subject : handleTabChange(subject) /\ UNCHANGED wall

Spec == Init /\ [][Next]_vars

\* --------------------------------------------------- failing storage write

\* The finishes whose localStorage.setItem threw.
WriteFailures == {"handleFinishTest: setItem throws", "tick: setItem throws"}

\* App.handleTestFinish when localStorage.setItem of saveHistory throws (the
\* storage is full or switched off): setResponses and setTestHistory were
\* called before the throw, nothing catches it, setView('result') is not
\* reached.
handleTestFinishThrows(userResponses) ==
  /\ appResponses' = userResponses
  /\ testHistory' = CappedHistory(
       <<HistoryItem(questions, userResponses, durationMinutes,
                     FinishTime(testHistory))>> \o testHistory)
  /\ UNCHANGED <<storage, questions, durationMinutes, finalConfig, error>>

\* The Submit Test button when the write throws: the exception leaves the
\* click handler, the updates made before it are rendered, the test view
\* with TestInterface and its interval stays.
handleFinishTestThrows ==
  /\ view = "test"
  /\ testHistory = storage
  /\ lastEvent' = Event("handleFinishTest: setItem throws")
  /\ handleTestFinishThrows(SubmittedResponses)
  /\ UNCHANGED view
  /\ UNCHANGED testVars

\* The expiring interval callback when the write throws: the exception
\* leaves the setTimeLeft updater, that is the render of TestInterface, and
\* no component of src/ catches it: the application is unmounted.
tickThrows ==
  /\ view = "test"
  /\ testHistory = storage
  /\ Expired(timeLeft)
  /\ lastEvent' = Event("tick: setItem throws")
  /\ handleTestFinishThrows(ExpiredResponses)
  /\ view' = "unmounted"
  /\ Unmounted

\* The handlers and the finishes with a failing storage write; a session is
\* followed up to its first failed write.
StorageNext ==
  \/ testHistory = storage /\ Next
  \/ handleFinishTestThrows /\ UNCHANGED wall
  \/ tickThrows /\ UNCHANGED wall

StorageSpec == Init /\ [][StorageNext]_vars

\* ------------------------------------------------------------ wall clock

\* Wall-clock instants per 1000 ms, the delay of setInterval: the clock of
\* the model advances in steps of 1000 / Period ms.
Period == 2
\* The clock is followed for MaxWall instants after the mount.
MaxWall == 6

NoWall == [now |-> 0, due |-> 0]

\* setInterval(callback, 1000) called at the instant now: the callback runs
\* first 1000 ms later.
SetInterval(now) == [now |-> now, due |-> now + Period]

\* The Timer effect after a handler: when currentIndex changed, the cleanup
\* clears the interval and the effect installs a new one.
TimerEffect ==
  IF currentIndex' # currentIndex THEN SetInterval(wall.now) ELSE wall

\* Time passes, up to the instant the interval's callback is due.
Elapse ==
  /\ view = "test"
  /\ wall.now < wall.due
  /\ wall.now < MaxWall
  /\ wall' = [wall EXCEPT !.now = @ + 1]
  /\ UNCHANGED <<appVars, testVars, lastEvent>>

\* The handlers with the wall clock: the interval's callback runs when it is
\* due, a user event at any instant.
ClockNext ==
  \/ Elapse
  \/ handleCustomStart /\ UNCHANGED wall
  \/ \E minutes \in Durations : startTest(minutes) /\ UNCHANGED wall
  \/ \E generatedQuestions \in GeneratedQuestions :
       /\ startTestResolved(generatedQuestions)
       /\ wall' = IF view' = "test" THEN SetInterval(0) ELSE wall
  \/ startTestRejected /\ UNCHANGED wall
  \/ /\ wall.now = wall.due
     /\ tick
     /\ wall' = IF view' = "test" THEN SetInterval(wall.now) ELSE NoWall
  \/ handleFinishTest /\ wall' = NoWall
  \/ \E index \in -1..Len(questions) : navigate(index) /\ wall' = TimerEffect
  \/ \E key \in {"ArrowRight", "ArrowLeft"} :
       handleKeyDown(key) /\ wall' = TimerEffect
  \/ \E option \in {<<DigitChars[d]>> : d \in 1..Len(DigitChars)} :
       handleOptionSelect(option) /\ UNCHANGED wall
  \/ \E val \in NumericalTexts : handleNumericalInput(val) /\ UNCHANGED wall
  \/ handleMarkForReview /\ UNCHANGED wall
  \/ handleClearResponse /\ UNCHANGED wall
  \/ \E subject \in Subject : handleTabChange(subject) /\ wall' = TimerEffect

ClockSpec == Init /\ [][ClockNext]_vars

\* Time passes by one instant, the clock read from the present: now stays
\* where it is and due comes one instant nearer, so that a session can be
\* followed for as long as it lasts.
ElapseRebased ==
  /\ view = "test"
  /\ wall.now < wall.due
  /\ wall' = [wall EXCEPT !.due = @ - 1]
  /\ UNCHANGED <<appVars, testVars, lastEvent>>

\* The callback of the interval, run when it is due.
IntervalCallback ==
  /\ wall.now = wall.due
  /\ tick
  /\ wall' = IF view' = "test" THEN SetInterval(wall.now) ELSE NoWall

\* The handlers and callbacks of ClockNext (they leave the present where it
\* is) with the passing of time read from the present.
LiveNext ==
  \/ ElapseRebased
  \/ ClockNext /\ wall'.now = wall.now

\* Time does not stop while a session runs, and the runtime runs the callback
\* of the interval when it is due; nothing is assumed about the user.
LiveSpec ==
  /\ Init
  /\ [][LiveNext]_vars
  /\ WF_vars(ElapseRebased)
  /\ WF_vars(IntervalCallback)

\* ---------------------------------------------------------------- scoring

\* Longest question list that is scored: handleQuickStart asks for 15.
MaxScored == 15

\* The list generateQuestions returns for three subjects of five questions:
\* per subject the batch of multiple-choice questions (80%), then the
\* numerical ones; ids are q-<timestamp>-<idx>.
ExamQuestion(idx) ==
  [id |-> "q-" \o ToString(idx),
   type |-> IF idx % 5 = 4 THEN NUMERICAL ELSE MCQ,
   subject |-> <<PHYSICS, CHEMISTRY, MATHS>>[((idx \div 5) % 3) + 1],
   correctAnswer |-> IF idx % 5 = 4 THEN <<"5", ".", "4">> ELSE <<"0">>,
   options |-> IF idx % 5 = 4 THEN 0 ELSE 4]

ExamQuestions(n) == [i \in 1..n |-> ExamQuestion(i - 1)]

\* What the user entered for question q: the right answer (a numerical one
\* with a blank after it), a wrong one, or nothing.
RightEntry(q) ==
  IF q.type = MCQ THEN q.correctAnswer ELSE q.correctAnswer \o <<" ">>

WrongEntry(q) == IF q.type = MCQ THEN <<"1">> ELSE q.correctAnswer \o <<"0">>

\* The table after the entry went through the handler of q's type.
Entered(table, q, entry) ==
  IF q.type = MCQ THEN OptionSelect(table, q.id, entry)
  ELSE NumericalInput(table, q.id, entry)

\* The response table of a session of list qs in which every question was
\* visited, the first `right` questions were answered rightly, the next
\* `wrong` wrongly, and the rest was left alone.
AnsweredTable(qs, right, wrong) ==
  [id \in {qs[i].id : i \in 1..Len(qs)} |->
     LET i == CHOOSE k \in 1..Len(qs) : qs[k].id = id
         visited == Visit(InitialResponses(qs), id)
     IN IF i <= right THEN Entered(visited, qs[i], RightEntry(qs[i]))[id]
        ELSE IF i <= right + wrong
          THEN Entered(visited, qs[i], WrongEntry(qs[i]))[id]
        ELSE visited[id]]

\* A session in its first second, the questions answered in any order and
\* the first one shown again: the interval of the last change of position
\* closed over the table without the answer given since.
ScoreInit ==
  \E n \in 1..MaxScored : \E right \in 0..n : \E wrong \in 0..(n - right) :
    LET qs == ExamQuestions(n)
        table == AnsweredTable(qs, right, wrong)
    IN /\ view = "test"
       /\ questions = qs
       /\ durationMinutes = 1
       /\ finalConfig = 1
       /\ appResponses = <<>>
       /\ testHistory = <<>>
       /\ storage = <<>>
       /\ error = NoError
       /\ currentIndex = 0
       /\ timeLeft = InitialTimeLeft(1)
       /\ activeTab = qs[1].subject
       /\ responses = table
       /\ timer = [currentIndex |-> 0,
                   responses |-> [table EXCEPT ![qs[1].id] =
                                    InitialResponses(qs)[qs[1].id]]]
       /\ ticks = 0
       /\ wall = NoWall
       /\ lastEvent = IF right + wrong > 0
                        THEN TextEvent("handleOptionSelect",
                                       table[qs[1].id].selectedOption)
                        ELSE ListEvent("startTestResolved", qs)

\* The Submit Test button hands the table to App.handleTestFinish, which
\* shows the result screen.
ScoreNext == handleFinishTest /\ UNCHANGED wall

ScoreSpec == ScoreInit /\ [][ScoreNext]_vars

\* ------------------------------------------------------- stored history

\* A session as in ScoreInit, of an application whose mount effect loaded a
\* stored history of earlier sessions.
HistoryInit ==
  \E stored \in StoredLengths :
  \E n \in 1..MaxScored : \E right \in 0..n : \E wrong \in 0..(n - right) :
    LET qs == ExamQuestions(n)
        table == AnsweredTable(qs, right, wrong)
    IN /\ view = "test"
       /\ questions = qs
       /\ durationMinutes = 1
       /\ finalConfig = 1
       /\ appResponses = <<>>
       /\ storage = PastHistory(stored)
       /\ testHistory = storage
       /\ error = NoError
       /\ currentIndex = 0
       /\ timeLeft = InitialTimeLeft(1)
       /\ activeTab = qs[1].subject
       /\ responses = table
       /\ timer = [currentIndex |-> 0,
                   responses |-> [table EXCEPT ![qs[1].id] =
                                    InitialResponses(qs)[qs[1].id]]]
       /\ ticks = 0
       /\ wall = NoWall
       /\ lastEvent = IF right + wrong > 0
                        THEN TextEvent("handleOptionSelect",
                                       table[qs[1].id].selectedOption)
                        ELSE ListEvent("startTestResolved", qs)

\* The session ends by the Submit Test button or by the countdown.
HistoryNext ==
  \/ handleFinishTest /\ UNCHANGED wall
  \/ tick /\ UNCHANGED wall

HistorySpec == HistoryInit /\ [][HistoryNext]_vars

\* ----------------------------------------------------------- subject tabs

\* The table of a session whose first questions were answered one after the
\* other; the questions after them have not been opened.
TabTable(qs, answered) ==
  [id \in {qs[i].id : i \in 1..Len(qs)} |->
     LET i == CHOOSE k \in 1..Len(qs) : qs[k].id = id
     IN IF i <= answered THEN AnsweredTable(qs, answered, 0)[id]
        ELSE InitialResponses(qs)[id]]

\* A session of up to MaxScored questions in its first second, the first
\* question shown again after the answers.
TabInit ==
  \E n \in 1..MaxScored : \E answered \in 0..n :
    LET qs == ExamQuestions(n)
        table == TabTable(qs, answered)
    IN /\ view = "test"
       /\ questions = qs
       /\ durationMinutes = 1
       /\ finalConfig = 1
       /\ appResponses = <<>>
       /\ testHistory = <<>>
       /\ storage = <<>>
       /\ error = NoError
       /\ currentIndex = 0
       /\ timeLeft = InitialTimeLeft(1)
       /\ activeTab = qs[1].subject
       /\ responses = table
       /\ timer = [currentIndex |-> 0, responses |-> table]
       /\ ticks = 0
       /\ wall = NoWall
       /\ lastEvent = IF answered > 1 THEN NavEvent("navigateTo", 0)
                        ELSE IF answered = 1
                          THEN TextEvent("handleOptionSelect",
                                         table[qs[1].id].selectedOption)
                        ELSE ListEvent("startTestResolved", qs)

\* The subject tabs, the Review button and the interval callback.
TabNext ==
  \/ \E subject \in Subject : handleTabChange(subject) /\ UNCHANGED wall
  \/ handleMarkForReview /\ UNCHANGED wall
  \/ tick /\ UNCHANGED wall

TabSpec == TabInit /\ [][TabNext]_vars

\* ------------------------------------------------------ malformed input

\* Responses whose questionId is the id of no question, with and without a
\* selection and time.
StrayResponses ==
  { [questionId |-> "unknown", selectedOption |-> sel, status |-> st,
     timeSpentSeconds |-> t] :
      sel \in {Null, <<"0">>}, st \in {NOT_ANSWERED, ANSWERED}, t \in {0, 1} }

\* onFinish called with the table of the session and a stray response after
\* it: App.handleTestFinish and ResultScreen compute over that array.
handleTestFinishMalformed ==
  /\ view = "test"
  /\ lastEvent' = Event("onFinish: stray response")
  /\ \E stray \in StrayResponses :
       handleTestFinish(SubmittedResponses \o <<stray>>)

MalformedNext == handleTestFinishMalformed /\ UNCHANGED wall

MalformedSpec == ScoreInit /\ [][MalformedNext]_vars

\* ----------------------------------------------------------------- claims

\* A session is running: TestInterface is mounted.
Active == view = "test"

\* The id and the response of the question at the current position.
CurId == QuestionAt(currentIndex).id

Cur == responses[CurId]

Marked(status) == status \in {MARKED_FOR_REVIEW, ANSWERED_AND_MARKED}

\* The step is the interval callback finding the countdown at its end.
ExpiryStep == view = "test" /\ lastEvent'.op = "tick" /\ view' = "result"

\* C1: when the countdown expires, the array handed to onFinish is the
\* response table as it stood when the expiring tick arrived, with every
\* answer, mark, clear and time credit applied before it.
C1_ExpiryHandsOverTheTable ==
  [][ExpiryStep => appResponses' = ObjectValues(responses, questions)]_vars

\* C2: Submit Test ends the session at once, whatever the remaining time, and
\* the array handed to onFinish is the response table all earlier actions and
\* ticks produced.
C2_SubmitHandsOverTheTable ==
  [][(view = "test" /\ lastEvent'.op = "handleFinishTest")
       => /\ view' = "result"
          /\ appResponses' = ObjectValues(responses, questions)]_vars

\* C2 witness: a submit with time left, after an answer and a time credit.
C2_Witness ==
  /\ view = "result"
  /\ lastEvent.op = "handleFinishTest"
  /\ \E i \in 1..Len(appResponses) : appResponses[i].selectedOption # Null
  /\ \E i \in 1..Len(appResponses) : appResponses[i].timeSpentSeconds > 0

\* C3: selectOption(value) on the current question sets selectedOption to
\* value, and the status to ANSWERED when the question was unmarked and to
\* ANSWERED_AND_MARKED when it was marked (MARKED_FOR_REVIEW or
\* ANSWERED_AND_MARKED).
C3_SelectKeepsTheMark ==
  [][(view = "test" /\ lastEvent'.op = "handleOptionSelect")
       => /\ responses'[CurId].selectedOption = lastEvent'.text
          /\ responses'[CurId].status =
               IF Marked(Cur.status) THEN ANSWERED_AND_MARKED ELSE ANSWERED]_vars

\* C4: enterNumerical(text) with non-empty text acts as selectOption(text),
\* the mark kept from either marked status; with empty text the question is
\* left without a selection and NOT_ANSWERED, or MARKED_FOR_REVIEW if it was
\* marked.
C4_NumericalInput ==
  [][(view = "test" /\ lastEvent'.op = "handleNumericalInput")
       => IF Len(lastEvent'.text) > 0
            THEN /\ responses'[CurId].selectedOption = lastEvent'.text
                 /\ responses'[CurId].status =
                      IF Marked(Cur.status) THEN ANSWERED_AND_MARKED
                                            ELSE ANSWERED
            ELSE /\ responses'[CurId].selectedOption = Null
                 /\ responses'[CurId].status =
                      IF Marked(Cur.status) THEN MARKED_FOR_REVIEW
                                            ELSE NOT_ANSWERED]_vars

\* The status the 3-way toggle of the claim gives.  A question has a
\* selection when its selectedOption is a non-empty string: empty text counts
\* as no selection.
ToggledStatus(res) ==
  CASE res.status = MARKED_FOR_REVIEW -> NOT_ANSWERED
    [] res.status = ANSWERED_AND_MARKED -> ANSWERED
    [] OTHER -> IF res.selectedOption = Null \/ res.selectedOption = <<>>
                  THEN MARKED_FOR_REVIEW
                  ELSE ANSWERED_AND_MARKED

\* C5: toggleMark on the current question is the 3-way toggle:
\* MARKED_FOR_REVIEW becomes NOT_ANSWERED, ANSWERED_AND_MARKED becomes
\* ANSWERED, any other status becomes MARKED_FOR_REVIEW without a selection
\* and ANSWERED_AND_MARKED with one.
C5_ToggleMark ==
  [][(view = "test" /\ lastEvent'.op = "handleMarkForReview")
       => /\ responses'[CurId].status = ToggledStatus(Cur)
          /\ currentIndex' = currentIndex]_vars

\* C5 witness: the Review button was pressed on an answered question, which
\* is now answered and marked.
C5_Witness ==
  /\ Active
  /\ lastEvent.op = "handleMarkForReview"
  /\ Cur.status = ANSWERED_AND_MARKED

\* C6: clearResponse on the current question removes the selection and sets
\* the status to MARKED_FOR_REVIEW if it was ANSWERED_AND_MARKED and to
\* NOT_ANSWERED otherwise.
C6_ClearResponse ==
  [][(view = "test" /\ lastEvent'.op = "handleClearResponse")
       => /\ responses'[CurId].selectedOption = Null
          /\ Cur.status = ANSWERED_AND_MARKED
               => responses'[CurId].status = MARKED_FOR_REVIEW
          /\ Cur.status # ANSWERED_AND_MARKED
               => responses'[CurId].status = NOT_ANSWERED
          /\ currentIndex' = currentIndex]_vars

\* C6 witness: Clear was pressed on an answered and marked question, which is
\* now marked without an answer.
C6_Witness ==
  /\ Active
  /\ lastEvent.op = "handleClearResponse"
  /\ Cur.status = MARKED_FOR_REVIEW
  /\ Cur.selectedOption = Null

\* C7: from every reachable status of the current question, selecting the
\* same value twice in a row gives the status and the selection that
\* selecting it once gives.
C7_SelectIdempotent ==
  Active =>
    IF QuestionAt(currentIndex).type = MCQ
      THEN \A option \in OptionStrings(QuestionAt(currentIndex)) :
             OptionSelect(OptionSelect(responses, CurId, option), CurId, option)
               = OptionSelect(responses, CurId, option)
      ELSE \A val \in NumericalTexts :
             NumericalInput(NumericalInput(responses, CurId, val), CurId, val)
               = NumericalInput(responses, CurId, val)

\* The session was created and nothing has happened in it yet.
Created == view = "test" /\ lastEvent.op = "startTestResolved"

\* C8: at session creation the table has exactly one entry per question, each
\* without selection and with timeSpentSeconds 0; the question at position 0
\* is NOT_ANSWERED and every other one NOT_VISITED; the position is 0 and the
\* remaining time is durationMinutes x SecondsPerMinute seconds.
C8_SessionCreation ==
  Created =>
    /\ DOMAIN responses = {questions[i].id : i \in 1..Len(questions)}
    /\ Cardinality(DOMAIN responses) = Len(questions)
    /\ \A i \in 1..Len(questions) :
         LET res == responses[questions[i].id]
         IN /\ res.questionId = questions[i].id
            /\ res.selectedOption = Null
            /\ res.timeSpentSeconds = 0
            /\ res.status = IF i = 1 THEN NOT_ANSWERED ELSE NOT_VISITED
    /\ currentIndex = 0
    /\ timeLeft = durationMinutes * SecondsPerMinute

\* C8 witness: a session just created over more than one question.
C8_Witness == Created /\ Len(questions) > 1 /\ timeLeft > 0

\* C9: navigateTo(index) with index in [0, length) sets the position to index
\* and visits the target: NOT_VISITED becomes NOT_ANSWERED, any other status
\* and the selection stay as they are.
C9_NavigateVisits ==
  [][(view = "test" /\ lastEvent'.nav /\ InRange(lastEvent'.index))
       => LET target == QuestionAt(lastEvent'.index).id
          IN /\ currentIndex' = lastEvent'.index
             /\ responses[target].status = NOT_VISITED
                  => responses'[target].status = NOT_ANSWERED
             /\ responses[target].status # NOT_VISITED
                  => responses'[target].status = responses[target].status
             /\ responses'[target].selectedOption
                  = responses[target].selectedOption]_vars

\* C9 witness: a navigation has just shown a question for the first time.
C9_Witness ==
  /\ Active
  /\ lastEvent.nav
  /\ lastEvent.index = currentIndex
  /\ currentIndex > 0
  /\ Cur.status = NOT_ANSWERED
  /\ timer.responses[CurId].status = NOT_ANSWERED
  /\ \E i \in 1..Len(questions) :
       responses[questions[i].id].status \in {ANSWERED, MARKED_FOR_REVIEW}

\* C10: navigateTo(index) with index outside [0, length) is a silent no-op:
\* position, response table and remaining time stay as they are, and the
\* session goes on.
C10_NavigateOutOfRange ==
  [][(view = "test" /\ lastEvent'.op = "navigateTo"
        /\ ~InRange(lastEvent'.index))
       => /\ UNCHANGED <<currentIndex, responses, timeLeft, activeTab, timer>>
          /\ UNCHANGED appVars]_vars

\* C10 witness: navigateTo was called with an index past the last question
\* in a session that has answers to lose.
C10_Witness ==
  /\ Active
  /\ lastEvent.op = "navigateTo"
  /\ lastEvent.index >= Len(questions)
  /\ Cur.selectedOption # Null

\* C11: for every N below the initial number of seconds, after N callbacks
\* of the interval the remaining time is the initial number minus N; the
\* remaining time is never below 0.
C11_Countdown ==
  /\ timeLeft >= 0
  /\ (Active /\ ticks < InitialTimeLeft(durationMinutes))
       => timeLeft = InitialTimeLeft(durationMinutes) - ticks

C11_Witness ==
  /\ Active
  /\ ticks = InitialTimeLeft(durationMinutes) - 1
  /\ ticks >= 1
  /\ currentIndex # 0

\* C12: the interval raises the expiry finish on the callback that brings the
\* remaining time to 0 and on no other, and once the session has finished
\* no further callback runs, so a session expires at most once.
C12_ExpiresOnce ==
  [][/\ lastEvent'.op = "tick" => view = "test"
     /\ (view = "test" /\ lastEvent'.op = "tick")
          => (view' = "result" <=> timeLeft = 1)]_vars

C12_Witness == view = "result" /\ lastEvent.op = "tick"

\* The session's responses after a step, in question order: the table of the
\* mounted session, or the array it handed to onFinish when the step ended it.
TableAfter ==
  IF view' = "test" THEN ObjectValues(responses', questions) ELSE appResponses'

\* C13: every callback of the interval adds exactly 1 to timeSpentSeconds of
\* the question at the current position and leaves the timeSpentSeconds of
\* every other question as it was, so that the credits add up to the number
\* of callbacks.
C13_TickCreditsCurrent ==
  [][(view = "test" /\ lastEvent'.op = "tick")
      => \A i \in 1..Len(questions) :
           TableAfter[i].timeSpentSeconds
             = responses[questions[i].id].timeSpentSeconds
                 + (IF i = currentIndex + 1 THEN 1 ELSE 0)]_vars

\* C14: while the session runs, one callback of the interval runs for every
\* elapsed second of the wall clock, whatever navigation happens between two
\* callbacks: after n callbacks the next one is due n + 1 seconds after the
\* mount, neither later nor dropped.
C14_OneTickPerSecond ==
  Active => /\ wall.due = (ticks + 1) * Period
            /\ ticks * Period <= wall.now
            /\ wall.now <= (ticks + 1) * Period

\* The step is navigateTo with an index inside the list, from whichever
\* caller: a palette button, Prev, Next, an arrow key, a subject tab.
NavigateStep == view = "test" /\ lastEvent'.nav /\ InRange(lastEvent'.index)

\* What navigateTo leaves alone in the response table: every timeSpentSeconds,
\* every selectedOption, and every status but that of a target not visited
\* before.
ResponsesFrame ==
  /\ DOMAIN responses' = DOMAIN responses
  /\ \A id \in DOMAIN responses :
       /\ responses'[id].timeSpentSeconds = responses[id].timeSpentSeconds
       /\ responses'[id].selectedOption = responses[id].selectedOption
       /\ (id # QuestionAt(lastEvent'.index).id
            \/ responses[id].status # NOT_VISITED)
           => responses'[id].status = responses[id].status

Finished == testHistory # <<>>

\* The handlers and the callback that write the response table or the
\* remaining time of a session.
MutatingOps ==
  {"handleOptionSelect", "handleNumericalInput", "handleMarkForReview",
   "handleClearResponse", "tick"}

\* C16: a running session either goes on or finishes, and a finished one
\* stays finished: after the finish, by expiry or by Submit, no select,
\* numerical input, mark, clear or interval callback happens to it, and its
\* responses and its remaining time stay as they were handed over.
C16_FinishedIsTerminal ==
  [][/\ Active => view' \in {"test", "result"}
     /\ Finished => /\ view' # "test"
                     /\ lastEvent'.op \notin MutatingOps
                     /\ UNCHANGED <<appResponses, responses, timeLeft>>]_vars

C16_Witness ==
  /\ Finished
  /\ view = "result"
  /\ responses = NoResponses
  /\ timeLeft = 0
  /\ Len(testHistory) = 1

\* startTest has just resolved with a list of no questions.
ResolvedEmpty == lastEvent.op = "startTestResolved" /\ lastEvent.index = 0

\* C18: when the question supply resolves with no questions, the start
\* fails: the error is set and shown on the configuration screen, no
\* TestInterface is mounted and the question list is not replaced; the test
\* view never holds an empty question list.
C18_NoQuestionsNoSession ==
  /\ ResolvedEmpty => /\ view = "config"
                      /\ error = NoQuestionsError
                      /\ error # NoError
                      /\ questions = <<>>
                      /\ responses = NoResponses
                      /\ testHistory = <<>>
  /\ Active => Len(questions) > 0

C18_Witness == ResolvedEmpty /\ view = "config"

\* What the result screen shows for the finished session.
Report == ResultReport(questions, appResponses)

\* The number of questions of the finished session with this analysis.
NumberOf(status) ==
  Cardinality({i \in 1..Len(questions) :
                 AnalyzedStatus(appResponses, questions[i]) = status})

\* C19: for every finished session the score is 4 for each correct answer
\* minus 1 for each incorrect one, a question without an answer adding 0,
\* and maxScore is 4 times the number of questions; 10 correct, 3 incorrect
\* and 2 unattempted give score 37 of 60.
C19_Score ==
  view = "result" =>
    /\ Report.correct = NumberOf("correct")
    /\ Report.incorrect = NumberOf("wrong")
    /\ Report.unattempted = NumberOf("skipped")
    /\ Report.score = 4 * Report.correct - Report.incorrect
    /\ Report.maxScore = 4 * Len(questions)
    /\ (Report.correct = 10 /\ Report.incorrect = 3 /\ Report.unattempted = 2)
         => (Report.score = 37 /\ Report.maxScore = 60)

C19_Witness ==
  /\ view = "result"
  /\ Report.correct = 10
  /\ Report.incorrect = 3
  /\ Report.unattempted = 2
  /\ Report.score = 37
  /\ Report.maxScore = 60

\* C20: accuracy is 100 * correct / attempted rounded to the nearest integer,
\* attempted being correct + incorrect, and 0 when nothing was attempted; it
\* is an integer from 0 to 100, on the result screen and in the history item
\* alike; 10 correct of 13 attempted give 77.
C20_Accuracy ==
  view = "result" =>
    /\ Report.attempted = Report.correct + Report.incorrect
    /\ Report.accuracy \in 0..100
    /\ Report.attempted = 0 => Report.accuracy = 0
    /\ Report.attempted > 0 =>
         /\ 2 * Report.attempted * Report.accuracy - 200 * Report.correct
              <= Report.attempted
         /\ 200 * Report.correct - 2 * Report.attempted * Report.accuracy
              <= Report.attempted
    /\ (Report.correct = 10 /\ Report.attempted = 13) => Report.accuracy = 77
    /\ testHistory[1].accuracy = Report.accuracy

C20_Witness ==
  /\ view = "result"
  /\ Report.correct = 10
  /\ Report.attempted = 13
  /\ Report.accuracy = 77
  /\ testHistory[1].accuracy = 77

\* The response of the finished session to question q has no selection.
NoSelection(q) ==
  appResponses[FindResponse(appResponses, q.id)].selectedOption = Null

HasSelection(q) == ~NoSelection(q)

\* C21: a question whose response has no selection is unattempted: it is in
\* neither the correct nor the incorrect count and adds 0 to the score, so
\* the report over the questions with a selection alone has the same
\* correct, incorrect and score; correct + incorrect + unattempted is the
\* number of questions.
C21_Unattempted ==
  view = "result" =>
    LET selected == ResultReport(SelectSeq(questions, HasSelection),
                                 appResponses)
    IN /\ \A i \in 1..Len(questions) :
            NoSelection(questions[i])
              => AnalyzedStatus(appResponses, questions[i]) = "skipped"
       /\ Report.unattempted
            = Cardinality({i \in 1..Len(questions) :
                             NoSelection(questions[i])})
       /\ selected.correct = Report.correct
       /\ selected.incorrect = Report.incorrect
       /\ selected.score = Report.score
       /\ Report.correct + Report.incorrect + Report.unattempted
            = Report.totalQuestions
       /\ Report.totalQuestions = Len(questions)

C21_Witness ==
  /\ view = "result"
  /\ Report.unattempted >= 2
  /\ Report.correct >= 1
  /\ Report.incorrect >= 1
  /\ Report.score = 4 * Report.correct - Report.incorrect

Blank(s) == \A k \in 1..Len(s) : s[k] = " "

\* t is s without the blanks around it.
IsTrimOf(t, s) ==
  \E i \in 0..Len(s) : \E j \in 0..(Len(s) - i) :
    /\ t = SubSeq(s, i + 1, Len(s) - j)
    /\ Blank(SubSeq(s, 1, i))
    /\ Blank(SubSeq(s, Len(s) - j + 1, Len(s)))
    /\ Len(t) > 0 => (t[1] # " " /\ t[Len(t)] # " ")

\* The selection and the right answer are the same string once the blanks
\* around each are taken off.
SameTrimmed(a, b) ==
  \E i \in 0..Len(a) : \E j \in 0..(Len(a) - i) :
    /\ IsTrimOf(SubSeq(a, i + 1, Len(a) - j), a)
    /\ IsTrimOf(SubSeq(a, i + 1, Len(a) - j), b)

\* C22: an attempted multiple-choice question is correct exactly when the
\* selection is the string correctAnswer; an attempted numerical question is
\* correct exactly when selection and correctAnswer are the same string after
\* the blanks around them are taken off, digits compared as written: "5.4 "
\* against "5.4" is correct, "5.40" against "5.4" is incorrect.
C22_Correctness ==
  view = "result" =>
    \A i \in 1..Len(questions) :
      LET q == questions[i]
          selection == appResponses[FindResponse(appResponses, q.id)].selectedOption
          correct == AnalyzedStatus(appResponses, q) = "correct"
      IN HasSelection(q) =>
           /\ q.type = MCQ => (correct <=> selection = q.correctAnswer)
           /\ q.type = NUMERICAL
                => (correct <=> SameTrimmed(selection, q.correctAnswer))
           /\ (q.type = NUMERICAL /\ q.correctAnswer = <<"5", ".", "4">>)
                => /\ selection = <<"5", ".", "4", " ">> => correct
                   /\ selection = <<"5", ".", "4", "0">> => ~correct

C22_Witness ==
  /\ view = "result"
  /\ \E i \in 1..Len(questions) :
       /\ questions[i].correctAnswer = <<"5", ".", "4">>
       /\ appResponses[i].selectedOption = <<"5", ".", "4", " ">>
       /\ AnalyzedStatus(appResponses, questions[i]) = "correct"
  /\ \E i \in 1..Len(questions) :
       /\ questions[i].correctAnswer = <<"5", ".", "4">>
       /\ appResponses[i].selectedOption = <<"5", ".", "4", "0">>
       /\ AnalyzedStatus(appResponses, questions[i]) = "wrong"
  /\ \E i \in 1..Len(questions) :
       /\ questions[i].type = MCQ
       /\ AnalyzedStatus(appResponses, questions[i]) = "wrong"

\* The rules of the verdict in their order, read on the report of the
\* finished session, and the band of each.
VerdictRules ==
  << Report.score = Report.maxScore,
     Report.accuracy > 85 /\ Report.percentage > 70,
     Report.accuracy > 85 /\ Report.percentage < 50,
     Report.accuracy < 60 /\ 5 * Report.attempted > 4 * Report.totalQuestions,
     Report.score < 0,
     TRUE >>

VerdictBands ==
  << "Godlike!", "Excellent Performance", "Cautious Sniper",
     "Guesswork Hazard", "Critical Condition", "Balanced Effort" >>

FirstMatch ==
  CHOOSE k \in 1..6 : VerdictRules[k] /\ \A j \in 1..(k - 1) : ~VerdictRules[j]

\* C23: the verdict is one band for every report, that of the first rule
\* that matches in the order perfect score, accuracy > 85 and percentage >
\* 70, accuracy > 85 and percentage < 50, accuracy < 60 and more than 80%
\* of the questions attempted, score < 0, otherwise balanced; a report that
\* matches several rules gets the band of the earliest.
C23_Verdict ==
  view = "result" =>
    /\ ReportVerdict(Report) = VerdictBands[FirstMatch]
    /\ Cardinality({k \in 1..6 : VerdictBands[k] = ReportVerdict(Report)}) = 1

C23_Witness ==
  /\ view = "result"
  /\ VerdictRules[4]
  /\ VerdictRules[5]
  /\ ReportVerdict(Report) = "Guesswork Hazard"

\* The questions of the finished session that belong to subject sub.
QuestionsOf(sub) == SelectSeq(questions, LAMBDA q : q.subject = sub)

Radar(sub) == RadarAccuracy(questions, appResponses, sub)

Bar(sub) == BarData(questions, appResponses, sub)

\* C24: the accuracy of each subject is the overall accuracy formula on the
\* questions of the subject: 100 * correct / attempted of the subject
\* rounded to the nearest integer, 0 when none was attempted; the correct,
\* wrong and skipped counts of the subjects add up to the overall counts.
C24_SubjectAccuracy ==
  view = "result" =>
    /\ \A k \in 1..Len(ChartSubjects) :
         LET sub == ChartSubjects[k]
             part == ResultReport(QuestionsOf(sub), appResponses)
         IN /\ Radar(sub) = part.accuracy
            /\ Radar(sub) \in 0..100
            /\ part.attempted = 0 => Radar(sub) = 0
            /\ part.attempted > 0 =>
                 /\ 2 * part.attempted * Radar(sub) - 200 * part.correct
                      <= part.attempted
                 /\ 200 * part.correct - 2 * part.attempted * Radar(sub)
                      <= part.attempted
            /\ Bar(sub).Correct = part.correct
            /\ Bar(sub).Wrong = part.incorrect
            /\ Bar(sub).Skipped = part.unattempted
    /\ Bar(PHYSICS).Correct + Bar(CHEMISTRY).Correct + Bar(MATHS).Correct
         = Report.correct
    /\ Bar(PHYSICS).Wrong + Bar(CHEMISTRY).Wrong + Bar(MATHS).Wrong
         = Report.incorrect
    /\ Bar(PHYSICS).Skipped + Bar(CHEMISTRY).Skipped + Bar(MATHS).Skipped
         = Report.unattempted

C24_Witness ==
  /\ view = "result"
  /\ Len(questions) = 15
  /\ Bar(PHYSICS) = [Correct |-> 2, Wrong |-> 1, Skipped |-> 2]
  /\ Radar(PHYSICS) = 67
  /\ Radar(MATHS) = 0
  /\ Report.accuracy = 67

C26_ResultSurvivesWriteFailure ==
  lastEvent.op \in WriteFailures =>
    /\ Len(appResponses) = Len(questions)
    /\ view = "result"

\* C27: in no step of a session does a question whose status is not
\* NOT_VISITED get the status NOT_VISITED, whatever the handler or callback.
C27_NeverBackToNotVisited ==
  [][\A id \in DOMAIN responses \cap DOMAIN responses' :
       responses[id].status # NOT_VISITED =>
         responses'[id].status # NOT_VISITED]_vars

C27_Witness ==
  /\ view = "test"
  /\ lastEvent.op = "handleClearResponse"
  /\ ticks > 0
  /\ responses[QuestionAt(currentIndex).id].status = NOT_ANSWERED
  /\ responses[QuestionAt(currentIndex).id].timeSpentSeconds > 0
  /\ \E i \in 0..(Len(questions) - 1) :
       /\ i # currentIndex
       /\ responses[QuestionAt(i).id].status = MARKED_FOR_REVIEW

\* The last step was a selection on question i: an option button, or a text
\* that is not empty put into the numerical input.
SelectionApplied(i) ==
  /\ view = "test"
  /\ currentIndex = i
  /\ lastEvent.op \in {"handleOptionSelect", "handleNumericalInput"}
  /\ Len(lastEvent.text) > 0

\* The last step was the Review button on question i.
MarkApplied(i) ==
  /\ view = "test"
  /\ currentIndex = i
  /\ lastEvent.op = "handleMarkForReview"

AnsweredAndMarked(i) ==
  /\ view = "test"
  /\ InRange(i)
  /\ responses[QuestionAt(i).id].status = ANSWERED_AND_MARKED

\* C28: a question has the status ANSWERED_AND_MARKED only after a selection
\* and after a press of Review on it: in a behaviour without a selection on
\* the question it never has the status, and in one without a press of
\* Review neither (a behaviour may stop at any state, so this says that the
\* two steps come first).
C28_AnsweredAndMarkedNeedsBoth ==
  \A i \in 0..(MaxQuestions - 1) :
    /\ ([]~SelectionApplied(i)) => []~AnsweredAndMarked(i)
    /\ ([]~MarkApplied(i)) => []~AnsweredAndMarked(i)

C28_Witness ==
  /\ AnsweredAndMarked(1)
  /\ currentIndex = 0
  /\ responses[QuestionAt(0).id].status = MARKED_FOR_REVIEW
  /\ responses[QuestionAt(0).id].selectedOption = Null

\* C29: while a session runs the response table has an entry for each id of
\* the question list and for nothing else, as it was initialised, every
\* status is one of the five values, and the position is an index of the
\* question list.
C29_TableAndPosition ==
  view = "test" =>
    /\ DOMAIN responses = DOMAIN InitialResponses(questions)
    /\ DOMAIN responses = {questions[i].id : i \in 1..Len(questions)}
    /\ \A id \in DOMAIN responses :
         /\ responses[id].status \in QuestionStatus
         /\ responses[id].questionId = id
    /\ 0 <= currentIndex
    /\ currentIndex < Len(questions)

C29_Witness ==
  /\ view = "test"
  /\ Len(questions) = MaxQuestions
  /\ currentIndex = Len(questions) - 1
  /\ lastEvent.nav
  /\ lastEvent.index = Len(questions)
  /\ ticks > 0
  /\ responses[QuestionAt(0).id].status = ANSWERED_AND_MARKED

\* A step of one of the four handlers of the shown question.
ResponseStep ==
  /\ view = "test"
  /\ lastEvent'.op \in {"handleOptionSelect", "handleNumericalInput",
                        "handleMarkForReview", "handleClearResponse"}

\* C30: the option buttons, the numerical input, Review and Clear change the
\* response of the shown question only, and of that not the time spent: the
\* responses of the other questions, the position, the remaining time, the
\* instant the next callback of the interval is due and every
\* timeSpentSeconds are as before.
C30_ResponseFrame ==
  [][ResponseStep =>
       /\ currentIndex' = currentIndex
       /\ timeLeft' = timeLeft
       /\ wall'.due = wall.due
       /\ DOMAIN responses' = DOMAIN responses
       /\ \A id \in DOMAIN responses :
            /\ responses'[id].timeSpentSeconds = responses[id].timeSpentSeconds
            /\ id # QuestionAt(currentIndex).id => responses'[id] = responses[id]]_vars

C30_Witness ==
  /\ view = "test"
  /\ lastEvent.op = "handleClearResponse"
  /\ currentIndex = 1
  /\ responses[QuestionAt(1).id].status = MARKED_FOR_REVIEW
  /\ responses[QuestionAt(0).id].status = ANSWERED
  /\ responses[QuestionAt(0).id].timeSpentSeconds > 0

\* The responses of the finished session that belong to a question.
KnownResponses ==
  SelectSeq(appResponses,
            LAMBDA r : \E i \in 1..Len(questions) : questions[i].id = r.questionId)

\* C31: a response whose questionId is the id of no question changes
\* nothing in the report of ResultScreen and nothing in the history entry:
\* both are what they are without it.
C31_StrayResponseIgnored ==
  view = "result" =>
    /\ ResultReport(questions, appResponses)
         = ResultReport(questions, KnownResponses)
    /\ testHistory[1] = HistoryItem(questions, KnownResponses,
                                    durationMinutes, testHistory[1].id)

\* The response of the finished session for the question at index i.
FinishedResponse(i) == appResponses[FindResponse(appResponses, QuestionAt(i).id)]

\* C32: a question the scoring counts as correct or wrong has the status
\* ANSWERED or ANSWERED_AND_MARKED in the responses handed over; one whose
\* status is not among the two (a numerical answer erased again) is skipped
\* and adds nothing to the score.
C32_AttemptedIsAnswered ==
  view = "result" =>
    \A i \in 0..(Len(questions) - 1) :
      /\ AnalyzedStatus(appResponses, QuestionAt(i)) \in {"correct", "wrong"}
           => FinishedResponse(i).status \in {ANSWERED, ANSWERED_AND_MARKED}
      /\ FinishedResponse(i).status \notin {ANSWERED, ANSWERED_AND_MARKED}
           => /\ Marks(AnalyzedStatus(appResponses, QuestionAt(i))) = 0
              /\ ScoreOf(appResponses, QuestionAt(i)) = 0

\* C33: for every question of a running session the status is ANSWERED or
\* ANSWERED_AND_MARKED exactly when selectedOption is not null.
C33_StatusAgreesWithSelection ==
  view = "test" =>
    \A id \in DOMAIN responses :
      responses[id].status \in {ANSWERED, ANSWERED_AND_MARKED}
        <=> responses[id].selectedOption # Null

\* C34: the score, maxScore and accuracy of the history entry written at
\* the finish are the score, maxScore and accuracy ResultScreen computes
\* from the questions and the responses of that finish.
C34_HistoryEqualsReport ==
  view = "result" =>
    /\ testHistory[1].score = Report.score
    /\ testHistory[1].maxScore = Report.maxScore
    /\ testHistory[1].accuracy = Report.accuracy

C34_Witness ==
  /\ view = "result"
  /\ Len(questions) = 2
  /\ Report.correct = 1
  /\ Report.incorrect = 1
  /\ testHistory[1].score = 3
  /\ testHistory[1].accuracy = 50
  /\ \E i \in 1..Len(appResponses) : appResponses[i].selectedOption = <<>>

\* C35: while a session runs the shown question has been visited, and a
\* question that is still NOT_VISITED has no selection and no time credited.
C35_NotVisitedIsUntouched ==
  view = "test" =>
    /\ responses[QuestionAt(currentIndex).id].status # NOT_VISITED
    /\ \A id \in DOMAIN responses :
         responses[id].status = NOT_VISITED =>
           /\ responses[id].selectedOption = Null
           /\ responses[id].timeSpentSeconds = 0

C35_Witness ==
  /\ view = "test"
  /\ ticks > 0
  /\ responses[QuestionAt(currentIndex).id].timeSpentSeconds > 0
  /\ responses[QuestionAt(currentIndex).id].selectedOption # Null
  /\ \E id \in DOMAIN responses : responses[id].status = NOT_VISITED

\* The response table after the Review button was pressed on the shown
\* question, the table being the rendered one.
Reviewed(table) == MarkForReview(table, QuestionAt(currentIndex).id)

\* C36: from every state of a running session two presses of Review in a
\* row give back the status the shown question had, and neither press
\* changes its selectedOption (nor anything else of the table).
C36_ReviewTwiceIsIdentity ==
  view = "test" =>
    LET id == QuestionAt(currentIndex).id
        once == Reviewed(responses)
        twice == Reviewed(once)
    IN /\ once[id].status # responses[id].status
       /\ once[id].selectedOption = responses[id].selectedOption
       /\ twice[id].status = responses[id].status
       /\ twice[id].selectedOption = responses[id].selectedOption
       /\ twice = responses

C36_Witness ==
  /\ view = "test"
  /\ lastEvent.op = "handleMarkForReview"
  /\ responses[QuestionAt(currentIndex).id].status = ANSWERED
  /\ responses[QuestionAt(currentIndex).id].selectedOption # Null
  /\ Reviewed(responses)[QuestionAt(currentIndex).id].status = ANSWERED_AND_MARKED

\* C37: a session that has started comes to its end: with time passing and
\* the interval's callback run whenever it is due, the result view is
\* reached whatever the user does in between.
C37_SessionFinishes == (view = "test") ~> (view = "result")

\* A step forward at the last question or back at the first one.
StepAtTheEnd ==
  /\ view = "test"
  /\ \/ lastEvent'.op = "ArrowRight" /\ currentIndex = Len(questions) - 1
     \/ lastEvent'.op = "ArrowLeft" /\ currentIndex = 0

\* C38: a step forward at the last question and a step back at the first
\* one change neither the position nor the response table nor the remaining
\* time and leave the session running; a session ends only by the callback
\* of the interval or by Submit Test.
C38_StepAtTheEndDoesNothing ==
  [][/\ StepAtTheEnd =>
          /\ view' = "test"
          /\ currentIndex' = currentIndex
          /\ responses' = responses
          /\ timeLeft' = timeLeft
     /\ (view = "test" /\ view' # "test") =>
          lastEvent'.op \in {"tick", "handleFinishTest"}]_vars

C38_Witness ==
  /\ view = "test"
  /\ lastEvent.op = "ArrowLeft"
  /\ currentIndex = 0
  /\ Len(questions) = MaxQuestions
  /\ ticks > 0
  /\ responses[QuestionAt(0).id].status = ANSWERED
  /\ \A i \in 1..(Len(questions) - 1) :
       responses[QuestionAt(i).id].status = NOT_VISITED

\* The questions of the subject of the tab that the step presses.
TabHits ==
  {i \in 0..(Len(questions) - 1) : QuestionAt(i).subject = lastEvent'.text[1]}

\* C39: a press on the tab of a subject makes the first question of the
\* subject the shown one and visits it (NOT_VISITED becomes NOT_ANSWERED, any
\* other status stays); no selectedOption, no other status and no
\* timeSpentSeconds changes, nor the remaining time; without a question of
\* the subject the position and the table stay as they are.
C39_TabChange ==
  [][(view = "test" /\ lastEvent'.op = "handleTabChange") =>
       /\ timeLeft' = timeLeft
       /\ DOMAIN responses' = DOMAIN responses
       /\ IF TabHits = {}
            THEN /\ currentIndex' = currentIndex
                 /\ responses' = responses
            ELSE /\ currentIndex' \in TabHits
                 /\ \A j \in TabHits : currentIndex' <= j
                 /\ \A i \in 0..(Len(questions) - 1) :
                      LET before == responses[QuestionAt(i).id]
                          after == responses'[QuestionAt(i).id]
                      IN /\ after.selectedOption = before.selectedOption
                         /\ after.timeSpentSeconds = before.timeSpentSeconds
                         /\ after.status =
                              IF i = currentIndex' /\ before.status = NOT_VISITED
                                THEN NOT_ANSWERED ELSE before.status]_vars

C39_Witness ==
  /\ view = "test"
  /\ lastEvent.op = "handleTabChange"
  /\ lastEvent.text = <<CHEMISTRY>>
  /\ currentIndex = 5
  /\ Len(questions) = 15
  /\ responses[QuestionAt(5).id].status = NOT_ANSWERED
  /\ responses[QuestionAt(6).id].status = NOT_VISITED
  /\ responses[QuestionAt(0).id].status = ANSWERED_AND_MARKED
  /\ responses[QuestionAt(0).id].timeSpentSeconds > 0
====
